---- MODULE Spec2Model ----
(***************************************************************************)
(* Chunking and map-reduce summarisation of a paper's text:                *)
(*   src/src/text_chunker.py  TextChunker, chunk_paper_text                *)
(*   src/src/summarizer.py    PaperSummarizer, summarize_with_both_models  *)
(*   src/src/config.py        CHUNK_SIZE, MAP_PROMPT, REDUCE_PROMPT        *)
(*                                                                         *)
(* A text is a sequence of one-character strings.  The program is          *)
(* single-threaded; pc is the position of its one thread of control.       *)
(* Three ways into the code are modelled, chosen by Init:                   *)
(*   "chunk_text"         TextChunker(chunk_size, chunk_overlap)           *)
(*                          .chunk_text(text)                              *)
(*   "combine_summaries"  PaperSummarizer.combine_summaries(summaries)     *)
(*   "summarize"          summarize_with_both_models(text)                 *)
(***************************************************************************)
EXTENDS Integers, Sequences, FiniteSets, TLC

\* ------------------------------------------------------------------ bounds
\* Longest Document, in characters.
MaxChars == 5
\* Largest chunk_size and chunk_overlap a TextChunker is constructed with.
MaxChunkSize == 3
\* The window loop of chunk_text is followed for at most this many windows
\* (the loop itself has no such limit).
MaxChunks == 5
\* Longest list handed to combine_summaries when it is called directly.
MaxNotes == 2

\* ------------------------------------------------------- program constants
\* config.CHUNK_SIZE (20000 in the source) and the default chunk_overlap of
\* TextChunker.__init__ (500 in the source), scaled down together: the
\* window arithmetic only compares them with each other and with the token
\* count, and 0 < overlap < size is kept.
CHUNK_SIZE == 3
DEFAULT_CHUNK_OVERLAP == 1

\* The placeholder each prompt template holds, and the keyword the code
\* passes to str.format for it.
MAP_PROMPT == [name |-> "MAP_PROMPT", placeholder |-> "text"]
REDUCE_PROMPT == [name |-> "REDUCE_PROMPT", placeholder |-> "text"]

\* The separator of combine_summaries, "\n\n---\n\n", as characters.
SEPARATOR == <<"\n", "\n", "-", "-", "-", "\n", "\n">>

\* results keys of summarize_with_both_models, in the order they are run.
BackendNames == <<"gemma", "gpt-oss">>

\* An Optional[...] value: None is the empty tuple, a value v is <<v>>.
None == <<>>

Some(v) == <<v>>

\* ------------------------------------------------------------------- text
Chars == {"a", "b", " "}

Min(a, b) == IF a < b THEN a ELSE b

Max(a, b) == IF a > b THEN a ELSE b

SeqsUpTo(S, n) == UNION {[1..k -> S] : k \in 0..n}

Documents == SeqsUpTo(Chars, MaxChars)

\* Python's seq[lo:hi]: a negative index counts from the end, and both are
\* clamped to the sequence.
PySlice(s, lo, hi) ==
    LET n == Len(s)
        l == IF lo < 0 THEN Max(lo + n, 0) ELSE Min(lo, n)
        h == IF hi < 0 THEN Max(hi + n, 0) ELSE Min(hi, n)
    IN  SubSeq(s, l + 1, h)

\* str.strip(): leading and trailing whitespace removed.
RECURSIVE LStrip(_)
LStrip(s) == IF s # <<>> /\ Head(s) = " " THEN LStrip(Tail(s)) ELSE s

RECURSIVE RStrip(_)
RStrip(s) ==
    IF s # <<>> /\ s[Len(s)] = " " THEN RStrip(SubSeq(s, 1, Len(s) - 1)) ELSE s

Strip(s) == LStrip(RStrip(s))

\* The blank test without its strip().
IsBlankNoStrip(t) == t = <<>>

\* `not text or not text.strip()`
IsBlank(t) == t = <<>> \/ Strip(t) = <<>>

\* encoding.encode: a byte-pair tokenizer with the one merge "a"+"b" -> "ab";
\* every other character is a token of its own.  A token is the text it
\* stands for.
RECURSIVE Encode(_)
Encode(text) ==
    IF text = <<>> THEN <<>>
    ELSE IF Len(text) >= 2 /\ text[1] = "a" /\ text[2] = "b"
         THEN <<(<<"a", "b">>)>> \o Encode(SubSeq(text, 3, Len(text)))
         ELSE <<(<<text[1]>>)>> \o Encode(Tail(text))

\* encoding.decode: the tokens' texts, concatenated.
RECURSIVE Decode(_)
Decode(toks) == IF toks = <<>> THEN <<>> ELSE Head(toks) \o Decode(Tail(toks))

\* count_tokens
CountTokens(text) == Len(Encode(text))

\* str.format on a template with one placeholder: a keyword that is not the
\* template's placeholder raises KeyError (None here), otherwise the prompt.
Format(tpl, keyword, value) ==
    IF tpl.placeholder = keyword
    THEN Some([template |-> tpl.name, arg |-> value])
    ELSE None

\* "\n\n---\n\n".join(summaries)
RECURSIVE Join(_)
Join(summaries) ==
    IF summaries = <<>> THEN <<>>
    ELSE IF Len(summaries) = 1 THEN summaries[1]
    ELSE summaries[1] \o SEPARATOR \o Join(Tail(summaries))

\* ---------------------------------------------------------- model backend
\* What one llm.invoke call can do: raise, or return a response whose
\* content is one of these texts.
RawOutputs == {<<" ">>, <<"x">>, <<"y", " ">>}

ModelOutcomes ==
    {[ok |-> FALSE, content |-> <<>>]} \cup
    {[ok |-> TRUE, content |-> c] : c \in RawOutputs}

\* Notes a caller hands to combine_summaries directly.
Notes == {<<"x">>, <<"y">>}

\* ------------------------------------------------------------------ state
VARIABLES
    entry,            \* which call the run is: see the module comment
    text,             \* the Document
    chunk_size,       \* TextChunker.chunk_size
    chunk_overlap,    \* TextChunker.chunk_overlap
    pc,               \* position of the thread of control
    start,            \* chunk_text: start
    chunks,           \* chunk_text: chunks, then summarize_paper: chunks
    windows,          \* the "Created chunk %d: tokens %d-%d" log lines
    chunkings,        \* number of chunk_text calls made so far
    backend,          \* index in BackendNames of the backend being run
    i,                \* summarize_paper: i of the Map loop
    chunk_summaries,  \* summarize_paper: chunk_summaries
    calls,            \* the llm.invoke calls made so far, in order
    errors,           \* the logger.error lines written so far, in order
    retval,           \* what summarize_paper / combine_summaries returned
    results           \* summarize_with_both_models: results

vars == <<entry, text, chunk_size, chunk_overlap, pc, start, chunks, windows,
          chunkings, backend, i, chunk_summaries, calls, errors, retval,
          results>>

chunkerVars == <<start, chunks, windows>>

summarizerVars == <<backend, i, chunk_summaries, calls, errors, retval, results>>

\* tokens = self.encoding.encode(text); total_tokens = len(tokens)
tokens == Encode(text)

total_tokens == Len(tokens)

\* ---------------------------------------------------------------- chunker
\* The single-chunk test with < for <=.
FitsOneChunkStrict(total, size) == total < size

\* `if total_tokens <= self.chunk_size`
FitsOneChunk(total, size) == total <= size

\* `end = min(start + self.chunk_size, total_tokens)`
WindowEnd(s, size, total) == Min(s + size, total)

\* The window advance off by one token.
NextStartOffByOne(e, overlap) == e - overlap + 1

\* `start = end - self.chunk_overlap`
NextStart(e, overlap) == e - overlap

\* `if start >= total_tokens: break`
LoopBreaks(s, total) == s >= total

\* Where chunk_text returns to.
ChunkTextReturn == IF entry = "chunk_text" THEN "done" ELSE "sp_chunked"

\* chunk_text up to the window loop: the blank check and the single-chunk
\* shortcut.
ChunkTextBegin ==
    /\ pc = "chunk_text"
    /\ chunkings' = chunkings + 1
    /\ windows' = <<>>
    /\ start' = 0
    /\ IF IsBlank(text)
       THEN /\ chunks' = <<>>
            /\ pc' = ChunkTextReturn
       ELSE IF FitsOneChunk(total_tokens, chunk_size)
            THEN /\ chunks' = <<text>>
                 /\ pc' = ChunkTextReturn
            ELSE /\ chunks' = <<>>
                 /\ pc' = "window_loop"
    /\ UNCHANGED <<entry, text, chunk_size, chunk_overlap>>
    /\ UNCHANGED summarizerVars

\* One test of `while start < total_tokens` and, when it passes, one pass of
\* the loop body, the break included.
ChunkLoop ==
    /\ pc = "window_loop"
    /\ Len(chunks) < MaxChunks
    /\ IF start < total_tokens
       THEN LET end == WindowEnd(start, chunk_size, total_tokens)
                nxt == NextStart(end, chunk_overlap)
            IN  /\ chunks' = Append(chunks, Decode(PySlice(tokens, start, end)))
                /\ windows' = Append(windows, [start |-> start, end |-> end])
                /\ start' = nxt
                /\ pc' = IF LoopBreaks(nxt, total_tokens)
                         THEN ChunkTextReturn ELSE "window_loop"
       ELSE /\ pc' = ChunkTextReturn
            /\ UNCHANGED chunkerVars
    /\ UNCHANGED <<entry, text, chunk_size, chunk_overlap, chunkings>>
    /\ UNCHANGED summarizerVars

\* ------------------------------------------------------------- summarizer
\* `if summary is not None:` for `if summary:`.
TruthyNotNone(summary) == summary # None

\* `if summary:` on an Optional[str]
Truthy(summary) == summary # None /\ summary[1] # <<>>

\* summarize_chunk: the prompt, the call if the prompt could be built, and
\* the value returned.  Any exception gives None.
MapPrompt(chunk) == Format(MAP_PROMPT, "text", chunk)

SummarizeChunk(chunk, outcome) ==
    IF MapPrompt(chunk) # None /\ outcome.ok
    THEN Some(Strip(outcome.content))
    ELSE None

\* combine_summaries: the prompt it builds.
ReducePrompt(summaries) == Format(REDUCE_PROMPT, "summaries", Join(summaries))

\* What llm.invoke gave back: None when it raised, else response.content.
Reply(outcome) == IF outcome.ok THEN Some(outcome.content) ELSE None

\* One llm.invoke call: who made it, in which stage, with which prompt, and
\* what came back.
Call(stage, prompt, outcome) ==
    [backend |-> backend, stage |-> stage, prompt |-> prompt,
     reply |-> Reply(outcome)]

\* summarize_paper starts over from chunking only for the first backend.
SummarizePaperEntryCached(b) == IF b = 1 THEN "chunk_text" ELSE "sp_chunked"

\* summarize_paper's first step, whatever the backend: chunk_paper_text.
SummarizePaperEntry(b) == "chunk_text"

\* The Map loop stays on the same chunk.
NextIndexStuck(idx) == idx

\* The Map loop skips a chunk.
NextIndexSkip(idx) == idx + 2

\* `for i, chunk in enumerate(chunks, 1)`: the next i.
NextIndex(idx) == idx + 1

\* The append left out.
KeepNoteDropped(summaries, summary) == summaries

\* `if summary: chunk_summaries.append(summary)`
KeepNote(summaries, summary) ==
    IF Truthy(summary) THEN Append(summaries, summary[1]) ELSE summaries

\* Every result stored under the first backend's name.
ResultKeyFirst(b) == BackendNames[1]

\* results["gemma"] for the first summarizer, results["gpt-oss"] for the
\* second.
ResultKey(b) == BackendNames[b]

\* summarize_with_both_models: construct the next backend's PaperSummarizer
\* and enter summarize_paper, which calls chunk_paper_text(text, CHUNK_SIZE).
StartBackend ==
    /\ pc = "both_models"
    /\ backend < Len(BackendNames)
    /\ backend' = backend + 1
    /\ chunk_size' = CHUNK_SIZE
    /\ chunk_overlap' = DEFAULT_CHUNK_OVERLAP
    /\ pc' = SummarizePaperEntry(backend + 1)
    /\ i' = 0
    /\ chunk_summaries' = <<>>
    /\ UNCHANGED <<entry, text, chunkings, calls, errors, retval, results>>
    /\ UNCHANGED chunkerVars

\* summarize_paper after chunking: `if not chunks: return None`.
SummarizePaperChunked ==
    /\ pc = "sp_chunked"
    /\ IF chunks = <<>>
       THEN /\ errors' = Append(errors, [backend |-> backend, kind |-> "NoChunks"])
            /\ retval' = None
            /\ pc' = "sp_return"
            /\ UNCHANGED <<i, chunk_summaries>>
       ELSE /\ chunk_summaries' = <<>>
            /\ i' = 1
            /\ pc' = "map"
            /\ UNCHANGED <<errors, retval>>
    /\ UNCHANGED <<entry, text, chunk_size, chunk_overlap, chunkings, backend,
                   calls, results>>
    /\ UNCHANGED chunkerVars

\* One pass of the Map loop: summarize_chunk on chunk i, and the append.
MapStep(outcome) ==
    /\ pc = "map"
    /\ i <= Len(chunks)
    /\ LET prompt == MapPrompt(chunks[i])
           summary == SummarizeChunk(chunks[i], outcome)
       IN  /\ calls' = IF prompt # None
                       THEN Append(calls, Call("map", prompt[1], outcome))
                       ELSE calls
           /\ errors' = IF summary = None
                        THEN Append(errors, [backend |-> backend, kind |-> "ChunkError"])
                        ELSE errors
           /\ chunk_summaries' = KeepNote(chunk_summaries, summary)
    /\ i' = NextIndex(i)
    /\ pc' = IF NextIndex(i) > Len(chunks) THEN "after_map" ELSE "map"
    /\ UNCHANGED <<entry, text, chunk_size, chunk_overlap, chunkings, backend,
                   retval, results>>
    /\ UNCHANGED chunkerVars

\* The empty-list test left out.
NoNotesUnchecked(summaries) == Len(summaries) < 0

\* `if not chunk_summaries`
NoNotes(summaries) == summaries = <<>>

\* The single-note test with < for ==.
SingleNoteNever(summaries) == Len(summaries) < 1

\* `if len(chunk_summaries) == 1`
SingleNote(summaries) == Len(summaries) = 1

\* summarize_paper after the Map loop: no note, one note, or Reduce.
AfterMap ==
    /\ pc = "after_map"
    /\ IF NoNotes(chunk_summaries)
       THEN /\ errors' = Append(errors, [backend |-> backend, kind |-> "AllChunksFailed"])
            /\ retval' = None
            /\ pc' = "sp_return"
       ELSE IF SingleNote(chunk_summaries)
            THEN /\ retval' = Some(chunk_summaries[1])
                 /\ pc' = "sp_return"
                 /\ UNCHANGED errors
            ELSE /\ pc' = "combine"
                 /\ UNCHANGED <<errors, retval>>
    /\ UNCHANGED <<entry, text, chunk_size, chunk_overlap, chunkings, backend,
                   i, chunk_summaries, calls, results>>
    /\ UNCHANGED chunkerVars

\* combine_summaries, whole: join, format, invoke, strip; any exception is
\* logged and gives None.
CombineSummaries(outcome) ==
    /\ pc = "combine"
    /\ LET prompt == ReducePrompt(chunk_summaries)
       IN  IF prompt # None
           THEN /\ calls' = Append(calls, Call("reduce", prompt[1], outcome))
                /\ IF outcome.ok
                   THEN /\ retval' = Some(Strip(outcome.content))
                        /\ UNCHANGED errors
                   ELSE /\ retval' = None
                        /\ errors' = Append(errors, [backend |-> backend, kind |-> "CombineError"])
           ELSE /\ retval' = None
                /\ errors' = Append(errors, [backend |-> backend, kind |-> "CombineError"])
                /\ UNCHANGED calls
    /\ pc' = IF entry = "combine_summaries" THEN "done" ELSE "sp_return"
    /\ UNCHANGED <<entry, text, chunk_size, chunk_overlap, chunkings, backend,
                   i, chunk_summaries, results>>
    /\ UNCHANGED chunkerVars

\* summarize_with_both_models: results[name] = summarize_paper(text), then
\* the next backend or `return results`.
StoreResult ==
    /\ pc = "sp_return"
    /\ results' = [n \in DOMAIN results \cup {ResultKey(backend)} |->
                     IF n = ResultKey(backend) THEN retval ELSE results[n]]
    /\ pc' = IF backend = Len(BackendNames) THEN "done" ELSE "both_models"
    /\ UNCHANGED <<entry, text, chunk_size, chunk_overlap, chunkings, backend,
                   i, chunk_summaries, calls, errors, retval>>
    /\ UNCHANGED chunkerVars

\* ------------------------------------------------------------------- spec
InitCommon ==
    /\ start = 0
    /\ chunks = <<>>
    /\ windows = <<>>
    /\ chunkings = 0
    /\ backend = 0
    /\ i = 0
    /\ calls = <<>>
    /\ errors = <<>>
    /\ retval = None
    /\ results = <<>>

\* TextChunker(chunk_size, chunk_overlap).chunk_text(text)
InitChunkText ==
    /\ entry = "chunk_text"
    /\ text \in Documents
    /\ chunk_size \in 0..MaxChunkSize
    /\ chunk_overlap \in 0..MaxChunkSize
    /\ pc = "chunk_text"
    /\ chunk_summaries = <<>>

\* PaperSummarizer(...).combine_summaries(summaries)
InitCombine ==
    /\ entry = "combine_summaries"
    /\ text = <<>>
    /\ chunk_size = CHUNK_SIZE
    /\ chunk_overlap = DEFAULT_CHUNK_OVERLAP
    /\ pc = "combine"
    /\ chunk_summaries \in SeqsUpTo(Notes, MaxNotes)

\* summarize_with_both_models(text)
InitSummarize ==
    /\ entry = "summarize"
    /\ text \in Documents
    /\ chunk_size = CHUNK_SIZE
    /\ chunk_overlap = DEFAULT_CHUNK_OVERLAP
    /\ pc = "both_models"
    /\ chunk_summaries = <<>>

Init == InitCommon /\ (InitChunkText \/ InitCombine \/ InitSummarize)

Next ==
    \/ ChunkTextBegin
    \/ ChunkLoop
    \/ StartBackend
    \/ SummarizePaperChunked
    \/ \E outcome \in ModelOutcomes : MapStep(outcome)
    \/ AfterMap
    \/ \E outcome \in ModelOutcomes : CombineSummaries(outcome)
    \/ StoreResult

Spec == Init /\ [][Next]_vars

\* ----------------------------------------------------------------- claims
\* chunk_size > 0 and 0 <= chunk_overlap < chunk_size
ValidConfig == chunk_size > 0 /\ chunk_overlap >= 0 /\ chunk_overlap < chunk_size

\* An empty or whitespace-only Document.
BlankDocument == \A k \in 1..Len(text) : text[k] = " "

\* chunk_text has been called and has returned.
ChunkerReturned == chunkings > 0 /\ pc \notin {"chunk_text", "window_loop"}

\* The llm.invoke calls of one stage made for the backend being run.
StageCalls(stage) ==
    SelectSeq(calls, LAMBDA c : c.backend = backend /\ c.stage = stage)

\* The logger.error lines written for the backend being run.
BackendErrors == SelectSeq(errors, LAMBDA e : e.backend = backend)

\* The token positions a logged window holds.
Positions(w) == {p \in 0..(total_tokens - 1) : w.start <= p /\ p < w.end}

Covered == UNION {Positions(windows[k]) : k \in 1..Len(windows)}

\* combine_summaries has run to its end on chunk_summaries.
CombineReturned ==
    \/ entry = "combine_summaries" /\ pc = "done"
    \/ entry = "summarize" /\ pc = "sp_return" /\ Len(chunk_summaries) >= 2

\* C1: whenever N >= 2 notes went through the Reduce stage, exactly one
\* Reduce-stage llm.invoke call was made and its prompt is REDUCE_PROMPT with
\* the N notes, in order, joined by the separator.
C1_OneReduceCall ==
    (CombineReturned /\ Len(chunk_summaries) >= 2) =>
        /\ Len(StageCalls("reduce")) = 1
        /\ StageCalls("reduce")[1].prompt =
               [template |-> REDUCE_PROMPT.name, arg |-> Join(chunk_summaries)]

\* C2: with a valid configuration the window loop stops once a window's end
\* has reached total_tokens: the loop is never at its head again after such
\* a window was emitted.
C2_StopsAtEnd ==
    (ValidConfig /\ pc = "window_loop") =>
        \A k \in 1..Len(windows) : windows[k].end < total_tokens

\* C3: a Document of exactly 2 * chunk_size - chunk_overlap tokens gives
\* exactly 2 Chunks and 2 Map calls; two notes go to one Reduce call in
\* order, one surviving note is returned verbatim without a Reduce call.
C3_TwoChunks ==
    (ValidConfig /\ ~BlankDocument
        /\ total_tokens = 2 * chunk_size - chunk_overlap) =>
        /\ Len(chunks) <= 2
        /\ ChunkerReturned => Len(chunks) = 2
        /\ pc = "sp_return" =>
              /\ Len(StageCalls("map")) = 2
              /\ Len(chunk_summaries) = 2 =>
                    /\ Len(StageCalls("reduce")) = 1
                    /\ StageCalls("reduce")[1].prompt.arg = Join(chunk_summaries)
              /\ Len(chunk_summaries) = 1 =>
                    /\ retval = Some(chunk_summaries[1])
                    /\ StageCalls("reduce") = <<>>

\* C4: when summarize_paper returns with exactly one surviving note, it
\* returns that note unchanged, no Reduce call was made, and the backend's
\* model calls are as many as the chunks.
C4_SingleNoteVerbatim ==
    (entry = "summarize" /\ pc = "sp_return" /\ Len(chunk_summaries) = 1) =>
        /\ retval = Some(chunk_summaries[1])
        /\ StageCalls("reduce") = <<>>
        /\ Len(StageCalls("map")) = Len(chunks)
        /\ BackendErrors = SelectSeq(BackendErrors, LAMBDA e : e.kind = "ChunkError")

C4_Witness ==
    /\ entry = "summarize" /\ pc = "sp_return"
    /\ Len(chunk_summaries) = 1
    /\ retval = Some(<<"y">>)

\* C5: when the Map loop leaves no note, summarize_paper returns None with
\* "No chunks were successfully summarized" logged, and combine_summaries
\* is not entered: it is only ever entered with two notes or more.
C5_AllChunksFailed ==
    /\ (entry = "summarize" /\ pc = "sp_return" /\ chunks # <<>>
            /\ chunk_summaries = <<>>) =>
          /\ retval = None
          /\ StageCalls("reduce") = <<>>
          /\ BackendErrors # <<>>
          /\ BackendErrors[Len(BackendErrors)].kind = "AllChunksFailed"
    /\ (entry = "summarize" /\ pc = "combine") => Len(chunk_summaries) >= 2

\* Every Map call of the backend raised.
C5_Witness ==
    /\ entry = "summarize" /\ pc = "sp_return"
    /\ chunks # <<>>
    /\ Len(SelectSeq(BackendErrors, LAMBDA e : e.kind = "ChunkError")) = Len(chunks)
    /\ retval = None

\* C6: for an empty or whitespace-only Document chunk_text returns the empty
\* list without entering the window loop, and summarize_paper returns None
\* for every backend without any llm.invoke call.
C6_BlankDocument ==
    (entry # "combine_summaries" /\ BlankDocument) =>
        /\ chunks = <<>>
        /\ windows = <<>>
        /\ calls = <<>>
        /\ pc \notin {"window_loop", "map", "after_map", "combine"}
        /\ pc = "sp_return" => retval = None
        /\ \A n \in DOMAIN results : results[n] = None
        /\ (entry = "summarize" /\ pc = "done") =>
               DOMAIN results = {BackendNames[k] : k \in 1..Len(BackendNames)}

C6_Witness ==
    /\ entry = "summarize" /\ pc = "done"
    /\ text # <<>> /\ BlankDocument

\* C7 as stated: with a valid configuration every Document of at most
\* chunk_size tokens comes back as the one chunk <<text>>.
C7_Original ==
    (ValidConfig /\ ChunkerReturned /\ total_tokens <= chunk_size) =>
        chunks = <<text>>

\* C7 amended: every Document that is not empty or whitespace-only and has at
\* most chunk_size tokens (chunk_size itself included) makes chunk_text
\* return, without entering the window loop, the one chunk <<text>>.
C7_SingleChunk ==
    (chunkings > 0 /\ pc # "chunk_text" /\ ~BlankDocument
        /\ total_tokens <= chunk_size) =>
        /\ ChunkerReturned
        /\ chunks = <<text>>
        /\ windows = <<>>

C7_Witness ==
    /\ entry = "chunk_text" /\ pc = "done"
    /\ ~BlankDocument
    /\ total_tokens = chunk_size
    /\ total_tokens < Len(text)

C9_WindowSizes ==
    ValidConfig =>
        \A k \in 1..Len(windows) :
            /\ windows[k].end - windows[k].start >= 1
            /\ windows[k].end - windows[k].start <= chunk_size
            /\ k < Len(windows) => windows[k].end - windows[k].start = chunk_size

\* C10: with chunk_overlap >= chunk_size or chunk_size <= 0 no chunk is
\* produced, the window loop is not entered and no model call is made.
C10_InvalidConfigRejected ==
    (chunk_overlap >= chunk_size \/ chunk_size <= 0) =>
        /\ chunks = <<>>
        /\ windows = <<>>
        /\ calls = <<>>
        /\ pc # "window_loop"

\* ------------------------------------------------- claims on the Map loop
\* The llm.invoke calls of one stage made for backend b.
CallsOf(b, stage) == SelectSeq(calls, LAMBDA c : c.backend = b /\ c.stage = stage)

\* The note a model call yields: its trimmed content, empty when it raised.
NoteOf(c) == IF c.reply # None THEN Strip(c.reply[1]) ELSE <<>>

\* The non-empty notes of a list of calls, in the calls' order.
RECURSIVE NotesFrom(_)
NotesFrom(cs) ==
    IF cs = <<>> THEN <<>>
    ELSE IF NoteOf(Head(cs)) # <<>>
         THEN <<NoteOf(Head(cs))>> \o NotesFrom(Tail(cs))
         ELSE NotesFrom(Tail(cs))

\* summarize_paper is in or past its Map loop, over at least one chunk.
InOrPastMap ==
    /\ entry = "summarize"
    /\ pc \in {"map", "after_map", "combine", "sp_return"}
    /\ chunks # <<>>

PastMap == InOrPastMap /\ pc # "map"

\* The prompt summarize_chunk sends for chunk k.
MapPromptOf(k) == [template |-> MAP_PROMPT.name, arg |-> chunks[k]]

ExpectedResult(b) ==
    LET notes == NotesFrom(CallsOf(b, "map"))
        red == CallsOf(b, "reduce")
    IN  IF notes = <<>> THEN None
        ELSE IF Len(notes) = 1 THEN Some(notes[1])
        ELSE IF red # <<>> /\ red[1].reply # None
             THEN Some(Strip(red[1].reply[1]))
             ELSE None

\* The number of backends whose result has been stored.
BackendsStored == IF pc \in {"both_models", "done"} THEN backend ELSE backend - 1

\* C12: in summarize_with_both_models the mapping holds an entry for exactly
\* the backends run so far, each entry is what that backend's own model
\* replies determine, whatever the other backend's calls did, and the
\* mapping returned has an entry for both backend names.
C12_IndependentBackends ==
    entry = "summarize" =>
        /\ DOMAIN results = {BackendNames[b] : b \in 1..BackendsStored}
        /\ \A b \in 1..BackendsStored :
              results[BackendNames[b]] = ExpectedResult(b)
        /\ pc = "done" => BackendsStored = Len(BackendNames)

\* The first backend's Map call raised and the second backend still returned
\* its note.
C12_Witness ==
    /\ entry = "summarize" /\ pc = "done"
    /\ CallsOf(1, "map") # <<>> /\ CallsOf(1, "map")[1].reply = None
    /\ results["gemma"] = None
    /\ results["gpt-oss"] = Some(<<"x">>)

\* --------------------------------------------- claims on the order of calls
\* All llm.invoke calls of the backend being run, in the order made.
BackendCalls == SelectSeq(calls, LAMBDA c : c.backend = backend)

C14_SingleAttempt ==
    /\ (entry = "summarize" /\ backend >= 1) =>
          /\ Len(CallsOf(backend, "map")) <= Len(chunks)
          /\ InOrPastMap => Len(CallsOf(backend, "map")) <= i - 1
          /\ Len(BackendCalls) <= Len(chunks) + 1
          /\ \A b \in 1..backend : Len(CallsOf(b, "reduce")) <= 1
    /\ entry = "combine_summaries" => Len(calls) <= 1

\* The backend's one Map call raised and summarize_paper returned: that call
\* is still the only one the backend made.
C14_Witness ==
    /\ entry = "summarize" /\ pc = "sp_return" /\ chunks # <<>>
    /\ Len(BackendCalls) = 1
    /\ BackendCalls[1].reply = None

\* ----------------------------------------------------- claims on chunking
\* C15 as stated: however many backends are run, the Document is chunked
\* once.
C15_Original == (entry = "summarize" /\ ~BlankDocument) => chunkings <= 1

\* C15 amended: the Document is chunked once per backend run, at the start of
\* that run, so the chunkings made are as many as the backends started, and
\* the backends' Map stages are fed identical chunk sequences: their Map
\* prompts agree position by position, and in number once all have run.
C15_ChunkedPerBackend ==
    entry = "summarize" =>
        /\ chunkings = IF pc = "chunk_text" THEN backend - 1 ELSE backend
        /\ \A a, b \in 1..backend :
              \A k \in 1..Len(CallsOf(a, "map")) :
                  k <= Len(CallsOf(b, "map")) =>
                      CallsOf(a, "map")[k].prompt = CallsOf(b, "map")[k].prompt
        /\ pc = "done" =>
              \A a, b \in 1..backend :
                  Len(CallsOf(a, "map")) = Len(CallsOf(b, "map"))

\* Both backends have run over a Document that has a chunk.
C15_Witness ==
    /\ entry = "summarize" /\ pc = "done"
    /\ chunkings = Len(BackendNames)
    /\ CallsOf(1, "map") # <<>>
    /\ CallsOf(1, "map")[1].prompt = CallsOf(2, "map")[1].prompt

\* ------------------------------------------------- claims on empty notes
\* C16: at every point of the Map loop and after it, chunk_summaries holds
\* only non-empty notes, is exactly the non-empty trimmed replies of the Map
\* calls made so far, in their order, and is no longer than the number of
\* chunks processed; a run whose calls gave no non-empty note, by raising or
\* by an empty trimmed reply alike, returns None as "all chunks failed".
C16_OnlyNonEmptyNotes ==
    InOrPastMap =>
        /\ \A j \in 1..Len(chunk_summaries) : chunk_summaries[j] # <<>>
        /\ chunk_summaries = NotesFrom(CallsOf(backend, "map"))
        /\ Len(chunk_summaries) <= i - 1
        /\ (pc = "sp_return" /\ NotesFrom(CallsOf(backend, "map")) = <<>>) =>
              /\ retval = None
              /\ BackendErrors # <<>>
              /\ BackendErrors[Len(BackendErrors)].kind = "AllChunksFailed"

\* The Map call returned whitespace only: it did not raise, its trimmed
\* output is empty, no note was kept and the run returned None.
C16_Witness ==
    /\ entry = "summarize" /\ pc = "sp_return" /\ chunks # <<>>
    /\ BackendCalls # <<>>
    /\ BackendCalls[1].reply = Some(<<" ">>)
    /\ chunk_summaries = <<>>
    /\ retval = None

====
